---------------------------- MODULE Spec2Model ----------------------------
(***************************************************************************)
(* A model of the SPH particle simulation of src/src/state.rs              *)
(* (State::new, State::update, State::tick and the passes tick runs).      *)
(*                                                                         *)
(* Numbers.  An f32 is modelled as a fixed-point integer: the real value r *)
(* is the integer r * Scale, every product and quotient is rounded to the  *)
(* nearest integer with the sign kept apart (so that -(a*b) = (-a)*b, as   *)
(* in IEEE arithmetic), and NaN is one distinguished value that every      *)
(* operation propagates and every comparison rejects.  Squared lengths are *)
(* kept in Scale^2 units, so that a short vector keeps a non-zero length   *)
(* as it does in floating point.                                           *)
(***************************************************************************)
EXTENDS Integers, Sequences, FiniteSets, TLC

\* Fixed-point unit: the f32 value 1.0.
Scale == 100

\* f32::NAN.  Outside the range of every finite value the model reaches.
NaN == 2000000000

\* usize::MAX, the "empty" marker of start_indices.  Only its being larger
\* than every index and every key is used.
USIZE_MAX == 2147483647

---------------------------------------------------------------------------
(* Bounds of the model.                                                    *)

\* Number of particles (PARTICLE_COUNT is 1200 in the program).
PARTICLE_COUNT == 2

\* Number of update calls in one run.
MaxUpdates == 2

---------------------------------------------------------------------------
(* f32 arithmetic.                                                         *)

Abs(a) == IF a < 0 THEN -a ELSE a

Sgn(a) == IF a < 0 THEN -1 ELSE 1

\* a / b rounded to the nearest integer, halves away from zero.
RoundDiv(a, b) == Sgn(a) * Sgn(b) * ((2 * Abs(a) + Abs(b)) \div (2 * Abs(b)))

IsNaN(a) == a = NaN

FAdd(a, b) == IF IsNaN(a) \/ IsNaN(b) THEN NaN ELSE a + b

FSub(a, b) == IF IsNaN(a) \/ IsNaN(b) THEN NaN ELSE a - b

FNeg(a) == IF IsNaN(a) THEN NaN ELSE -a

FMul(a, b) == IF IsNaN(a) \/ IsNaN(b) THEN NaN ELSE RoundDiv(a * b, Scale)

\* x / 0.0 is NaN here: the program divides by zero only with a zero or a
\* NaN numerator (see calculate_pressure_force), where IEEE gives NaN too.
FDiv(a, b) ==
    IF IsNaN(a) \/ IsNaN(b) \/ b = 0 THEN NaN ELSE RoundDiv(a * Scale, b)

\* Comparisons: false as soon as one side is NaN.
FLt(a, b) == ~IsNaN(a) /\ ~IsNaN(b) /\ a < b

FLe(a, b) == ~IsNaN(a) /\ ~IsNaN(b) /\ a <= b

FGt(a, b) == FLt(b, a)

FGe(a, b) == FLe(b, a)

\* f32::signum: 1.0 for a positive number and +0.0, -1.0 for a negative one.
Signum(a) == IF IsNaN(a) THEN NaN ELSE IF a < 0 THEN -Scale ELSE Scale

\* Floor of the square root of a natural number, by bisection on the digits.
ISqrtStep(n, r) == IF (r + 1) * (r + 1) <= n THEN r + 1 ELSE r

RECURSIVE ISqrt(_)
ISqrt(n) ==
    IF n < 4 THEN (IF n = 0 THEN 0 ELSE 1)
    ELSE ISqrtStep(n, 2 * ISqrt(n \div 4))

---------------------------------------------------------------------------
(* glam::Vec2.                                                             *)

Vec2(x, y) == [x |-> x, y |-> y]

ZERO == Vec2(0, 0)

VNaN(v) == IsNaN(v.x) \/ IsNaN(v.y)

VAdd(a, b) == Vec2(FAdd(a.x, b.x), FAdd(a.y, b.y))

VSub(a, b) == Vec2(FSub(a.x, b.x), FSub(a.y, b.y))

\* Vec2 * f32 and f32 * Vec2.
VScale(a, k) == Vec2(FMul(a.x, k), FMul(a.y, k))

\* Vec2 / f32.
VDiv(a, k) == Vec2(FDiv(a.x, k), FDiv(a.y, k))

\* Vec2::length_squared, in Scale^2 units.
LengthSquared(v) == IF VNaN(v) THEN NaN ELSE v.x * v.x + v.y * v.y

\* f32::sqrt of a squared length.
Sqrt(sq) == IF IsNaN(sq) THEN NaN ELSE ISqrt(sq)

\* Vec2::length.
Length(v) == Sqrt(LengthSquared(v))

\* Vec2::normalize: self * (1.0 / length).  The zero vector gives
\* 0.0 * inf = NaN in both components.
Normalize(v) ==
    LET length == Length(v)
    IN  IF IsNaN(length) \/ length = 0 THEN Vec2(NaN, NaN)
        ELSE Vec2(RoundDiv(v.x * Scale, length), RoundDiv(v.y * Scale, length))

---------------------------------------------------------------------------
(* Constants of State, as fixed-point values.                              *)

ParticleIdx == 0 .. (PARTICLE_COUNT - 1)

TICK_RATE == 30 * Scale

TICK_DELTA == FDiv(Scale, TICK_RATE)

MASS == 1 * Scale

TARGET_DENSITY == 5 * Scale

SMOOTHING_RADIUS == (7 * Scale) \div 10

COLLISION_DAMPING == (75 * Scale) \div 100

PRESSURE_MULTIPLIER == 50 * Scale

INTERACTION_RADIUS == (15 * Scale) \div 10

INTERACTION_STRENGTH == 5 * Scale

\* std::f32::consts::PI.
PI == (355 * Scale) \div 113

\* f32::EPSILON is the distance from 1.0 to the next larger f32; in the
\* fixed-point representation that distance is one unit.  As in f32,
\* EPSILON / INTERACTION_RADIUS does not round to zero.
F32_EPSILON == 1

\* Rect::new(0.0, 0.0, 16.0, 9.0)
bounding_box == [x |-> 0 * Scale, y |-> 0 * Scale, w |-> 16 * Scale, h |-> 9 * Scale]

left(r) == r.x

right(r) == FAdd(r.x, r.w)

top(r) == r.y

bottom(r) == FAdd(r.y, r.h)

\* The Interaction enum; Option<Interaction> adds None.
Repel(pos) == [kind |-> "Repel", pos |-> pos]

Suck(pos) == [kind |-> "Suck", pos |-> pos]

None == [kind |-> "None", pos |-> ZERO]

---------------------------------------------------------------------------
(* Kernels.                                                                *)

\* radius.powi(4), in Scale^2 units.
Powi4(radius) == RoundDiv((radius * radius) * (radius * radius), Scale * Scale)

\* volume = (PI * radius.powi(4)) / 6.0, in Scale^2 units.
KernelVolume(radius) == RoundDiv(PI * Powi4(radius), 6 * Scale)

smoothing_kernel(dist, radius) ==
    IF FGe(dist, radius) THEN 0
    ELSE IF IsNaN(dist) THEN NaN
    ELSE RoundDiv((radius - dist) * (radius - dist) * Scale, KernelVolume(radius))

\* scale = 12.0 / (radius.powi(4) * PI)
KernelScale(radius) ==
    RoundDiv(12 * Scale * Scale * Scale, RoundDiv(Powi4(radius) * PI, Scale))

\* The derivative keeping its steepest slope beyond the radius.
smoothing_kernel_derivative_uncut(dist, radius) ==
    IF FGe(dist, radius) THEN FMul(FNeg(radius), KernelScale(radius))
    ELSE FMul(FSub(dist, radius), KernelScale(radius))

smoothing_kernel_derivative(dist, radius) ==
    IF FGe(dist, radius) THEN 0
    ELSE FMul(FSub(dist, radius), KernelScale(radius))

---------------------------------------------------------------------------
(* The spatial hash.                                                       *)

IVec2(x, y) == [x |-> x, y |-> y]

\* f32 -> i32 by `as`: NaN becomes 0.
FloorDivAsI32(a, b) == IF IsNaN(a) THEN 0 ELSE a \div b

world_pos_to_cell_pos(world_pos, smoothing_radius) ==
    IVec2(FloorDivAsI32(world_pos.x, smoothing_radius),
          FloorDivAsI32(world_pos.y, smoothing_radius))

\* create_cell_hash with both factors replaced by small ones.
create_cell_hash_small_factors(cell_pos) == cell_pos.x * 1 + cell_pos.y * 2

\* The usize the function returns is this integer modulo 2^64: `as usize`
\* sign-extends a negative coordinate and the products and the sum wrap.
create_cell_hash(cell_pos) == cell_pos.x * 15823 + cell_pos.y * 9737333

\* 2^64 modulo n, for n below 2^15.
TwoPow64Mod(n) ==
    LET a == 65536 % n
        b == (a * a) % n
    IN  (b * b) % n

\* hash % len, for the usize that the integer hash stands for.
UsizeRem(hash, len) ==
    IF hash >= 0 THEN hash % len ELSE ((hash % len) + TwoPow64Mod(len)) % len

\* Vec::len
len(array) == Cardinality(DOMAIN array)

\* create_cell_hash(cell_pos) % self.spatial_lookup.len()
CellKey(cell_pos, lookup_len) == UsizeRem(create_cell_hash(cell_pos), lookup_len)

\* The lookup left in index order.
sort_skipped(lookup) == lookup

\* Vec::sort_by_key on the cell key: a stable sort.  Rank(p) is the place
\* the entry at p moves to.
sort_by_key(lookup) ==
    LET Before(q, p) ==
            \/ lookup[q].key < lookup[p].key
            \/ lookup[q].key = lookup[p].key /\ q < p
        Rank(p) == Cardinality({q \in DOMAIN lookup : Before(q, p)})
    IN  [r \in DOMAIN lookup |->
            lookup[CHOOSE p \in DOMAIN lookup : Rank(p) = r]]

\* The slots of start_indices left as the tick before wrote them.
ResetSkipped(start_indices, count) == start_indices

\* The first loop of update_spatial_lookup, on start_indices: slot i is set
\* to usize::MAX for every i in 0..PARTICLE_COUNT (count here).
ResetStartIndices(start_indices, count) ==
    [k \in DOMAIN start_indices |->
        IF k < count THEN USIZE_MAX ELSE start_indices[k]]

\* The last loop of update_spatial_lookup, on the slots the first loop
\* left: each place whose key differs from the key before it is recorded; a
\* later assignment to the same slot would win.
StartIndices(lookup, reset) ==
    [k \in DOMAIN reset |->
        LET prev(i) == IF i = 0 THEN USIZE_MAX ELSE lookup[i - 1].key
            hits == {i \in DOMAIN lookup : lookup[i].key = k /\ prev(i) # k}
        IN  IF hits = {} THEN reset[k]
            ELSE CHOOSE i \in hits : \A j \in hits : j <= i]

\* An array held element by element (the combination of two functions is
\* stored that way), as a Vec is.
Force(f) == f @@ f

update_spatial_lookup(positions, start_indices) ==
    LET unsorted == Force([i \in DOMAIN positions |->
            [idx |-> i,
             key |-> CellKey(world_pos_to_cell_pos(positions[i], SMOOTHING_RADIUS),
                             len(positions))]])
        sorted == Force(sort_by_key(unsorted))
    IN  [spatial_lookup |-> sorted,
         start_indices |-> Force(StartIndices(sorted,
                               ResetStartIndices(start_indices, len(positions))))]

OFFSETS ==
    << IVec2(-1, -1), IVec2(0, -1), IVec2(1, -1),
       IVec2(-1, 0),  IVec2(0, 0),  IVec2(1, 0),
       IVec2(-1, 1),  IVec2(0, 1),  IVec2(1, 1) >>

\* The cell keys the loop over OFFSETS of get_neighbours_by_pos computes,
\* in order, for a table of lookup_len entries.
ProbedKeys(world_pos, lookup_len) ==
    LET center_pos == world_pos_to_cell_pos(world_pos, SMOOTHING_RADIUS)
    IN  [o \in 1 .. Len(OFFSETS) |->
            CellKey(IVec2(center_pos.x + OFFSETS[o].x, center_pos.y + OFFSETS[o].y),
                    lookup_len)]

\* The inner loop of get_neighbours_by_pos, from index i on.
RECURSIVE ScanBucket(_, _, _, _, _)
ScanBucket(positions, spatial_lookup, cell_key, world_pos, i) ==
    IF i >= len(spatial_lookup) THEN << >>
    ELSE IF spatial_lookup[i].key # cell_key THEN << >>
    ELSE LET particle_idx == spatial_lookup[i].idx
             sqr_dist == LengthSquared(VSub(positions[particle_idx], world_pos))
             sqr_radius == SMOOTHING_RADIUS * SMOOTHING_RADIUS
         IN  (IF FLe(sqr_dist, sqr_radius) THEN << particle_idx >> ELSE << >>)
             \o ScanBucket(positions, spatial_lookup, cell_key, world_pos, i + 1)

\* The outer loop of get_neighbours_by_pos, from offset number o on.
RECURSIVE ScanOffsets(_, _, _, _, _)
ScanOffsets(positions, spatial_lookup, start_indices, world_pos, o) ==
    IF o > Len(OFFSETS) THEN << >>
    ELSE LET center_pos == world_pos_to_cell_pos(world_pos, SMOOTHING_RADIUS)
             cell == IVec2(center_pos.x + OFFSETS[o].x, center_pos.y + OFFSETS[o].y)
             cell_key == CellKey(cell, len(spatial_lookup))
             cell_start_idx == start_indices[cell_key]
         IN  ScanBucket(positions, spatial_lookup, cell_key, world_pos, cell_start_idx)
             \o ScanOffsets(positions, spatial_lookup, start_indices, world_pos, o + 1)

get_neighbours_by_pos(positions, spatial_lookup, start_indices, world_pos) ==
    ScanOffsets(positions, spatial_lookup, start_indices, world_pos, 1)

get_neighbours_by_idx(positions, spatial_lookup, start_indices, idx) ==
    get_neighbours_by_pos(positions, spatial_lookup, start_indices, positions[idx])

---------------------------------------------------------------------------
(* The passes of a tick.                                                   *)

RECURSIVE SumInfluence(_, _, _, _)
SumInfluence(positions, idx, neighbours, n) ==
    IF n > Len(neighbours) THEN 0
    ELSE LET other_idx == neighbours[n]
             dist == Length(VSub(positions[other_idx], positions[idx]))
             influence == smoothing_kernel(dist, SMOOTHING_RADIUS)
         IN  FAdd(influence, SumInfluence(positions, idx, neighbours, n + 1))

calculate_density(positions, spatial_lookup, start_indices, idx) ==
    SumInfluence(positions, idx,
                 get_neighbours_by_idx(positions, spatial_lookup, start_indices, idx), 1)

\* interaction_force normalising the offset whatever its length.
interaction_force_always_normalising(positions, velocities, input, radius, strength, idx) ==
    LET offset == VSub(input, positions[idx])
        sqr_dist == LengthSquared(offset)
    IN  IF FLt(sqr_dist, radius * radius)
        THEN LET dist == Sqrt(sqr_dist)
                 dir_to_input_point == Normalize(offset)
                 center_t == FSub(Scale, FDiv(dist, radius))
             IN  VScale(VSub(VScale(dir_to_input_point, strength), velocities[idx]),
                        center_t)
        ELSE ZERO

\* interaction_force without the radius test.
interaction_force_unbounded(positions, velocities, input, radius, strength, idx) ==
    LET offset == VSub(input, positions[idx])
        sqr_dist == LengthSquared(offset)
    IN  IF ~IsNaN(sqr_dist)
        THEN LET dist == Sqrt(sqr_dist)
                 dir_to_input_point ==
                     IF FLe(dist, F32_EPSILON) THEN ZERO ELSE Normalize(offset)
                 center_t == FSub(Scale, FDiv(dist, radius))
             IN  VScale(VSub(VScale(dir_to_input_point, strength), velocities[idx]),
                        center_t)
        ELSE ZERO

interaction_force(positions, velocities, input, radius, strength, idx) ==
    LET offset == VSub(input, positions[idx])
        sqr_dist == LengthSquared(offset)
    IN  IF FLt(sqr_dist, radius * radius)
        THEN LET dist == Sqrt(sqr_dist)
                 dir_to_input_point ==
                     IF FLe(dist, F32_EPSILON) THEN ZERO ELSE Normalize(offset)
                 center_t == FSub(Scale, FDiv(dist, radius))
             IN  VScale(VSub(VScale(dir_to_input_point, strength), velocities[idx]),
                        center_t)
        ELSE ZERO

convert_density_to_pressure(density) ==
    LET density_err == FSub(density, TARGET_DENSITY)
    IN  FMul(density_err, PRESSURE_MULTIPLIER)

\* The pressure of the first density alone.
pressure_of_first(density_a, density_b) == convert_density_to_pressure(density_a)

calculate_shared_pressure(density_a, density_b) ==
    LET pressure_a == convert_density_to_pressure(density_a)
        pressure_b == convert_density_to_pressure(density_b)
        sum == FAdd(pressure_a, pressure_b)
    IN  IF IsNaN(sum) THEN NaN ELSE RoundDiv(sum, 2)

\* The values ThreadRng hands out, as a cycle; rng is a place in it.  A
\* draw of gen::<Vec2>() has both components in [0, 1), zero included.
RngStream == << Vec2((60 * Scale) \div 100, (80 * Scale) \div 100),
                Vec2(0, 0),
                Vec2(0, (25 * Scale) \div 100) >>

\* self.rng.gen::<Vec2>() with the generator at place rng.
gen(rng) == RngStream[rng]

\* The generator's place after n draws.
RngAfter(rng, n) == ((rng - 1 + n) % Len(RngStream)) + 1

\* dst == 0.0 for the pair (idx, other_idx) of calculate_pressure_force.
Coincident(predicted_positions, idx, other_idx) ==
    LET dst == Length(VSub(predicted_positions[other_idx], predicted_positions[idx]))
    IN  ~IsNaN(dst) /\ dst = 0

\* The pairs that draw from the generator in one pressure pass, and how many
\* of them come before the pair (idx, other_idx) in the order of the loops.
DrawingPairs(predicted_positions) ==
    {pr \in ParticleIdx \X ParticleIdx :
        pr[1] # pr[2] /\ Coincident(predicted_positions, pr[1], pr[2])}

DrawsBefore(predicted_positions, idx, other_idx) ==
    Cardinality({pr \in DrawingPairs(predicted_positions) :
        pr[1] < idx \/ (pr[1] = idx /\ pr[2] < other_idx)})

\* One turn of the loop of calculate_pressure_force.
PressureTerm(predicted_positions, densities, rng, idx, other_idx) ==
    LET offset == VSub(predicted_positions[other_idx], predicted_positions[idx])
        dst == Length(offset)
        dir == Normalize(
                 IF ~IsNaN(dst) /\ dst = 0
                 THEN gen(RngAfter(rng, DrawsBefore(predicted_positions, idx, other_idx)))
                 ELSE offset)
        slope == smoothing_kernel_derivative(dst, SMOOTHING_RADIUS)
        density == densities[other_idx]
        shared_pressure == calculate_shared_pressure(density, densities[idx])
    IN  VDiv(VScale(VScale(VScale(dir, shared_pressure), slope), MASS), density)

RECURSIVE SumPressure(_, _, _, _, _)
SumPressure(predicted_positions, densities, rng, idx, other_idx) ==
    IF other_idx >= PARTICLE_COUNT THEN ZERO
    ELSE IF other_idx = idx
    THEN SumPressure(predicted_positions, densities, rng, idx, other_idx + 1)
    ELSE VAdd(PressureTerm(predicted_positions, densities, rng, idx, other_idx),
              SumPressure(predicted_positions, densities, rng, idx, other_idx + 1))

calculate_pressure_force(predicted_positions, densities, rng, idx) ==
    SumPressure(predicted_positions, densities, rng, idx, 0)

\* The far wall damping the velocity without turning it round.
CollideAxisSameSign(p, v, lo, hi) ==
    LET p1 == IF FLt(p, lo) THEN lo ELSE p
        v1 == IF FLt(p, lo) THEN FMul(v, FMul(Signum(v), COLLISION_DAMPING)) ELSE v
        p2 == IF FGt(p1, hi) THEN hi ELSE p1
        v2 == IF FGt(p1, hi)
              THEN FMul(v1, FMul(Signum(v1), COLLISION_DAMPING)) ELSE v1
    IN  [p |-> p2, v |-> v2]

\* The walls turning the velocity round and leaving the particle where it is.
CollideAxisWithoutClamp(p, v, lo, hi) ==
    LET v1 == IF FLt(p, lo) THEN FMul(v, FMul(Signum(v), COLLISION_DAMPING)) ELSE v
        v2 == IF FGt(p, hi)
              THEN FMul(v1, FMul(FNeg(Signum(v1)), COLLISION_DAMPING)) ELSE v1
    IN  [p |-> p, v |-> v2]

\* resolve_collisions for one particle: the four tests in turn.
CollideAxis(p, v, lo, hi) ==
    LET p1 == IF FLt(p, lo) THEN lo ELSE p
        v1 == IF FLt(p, lo) THEN FMul(v, FMul(Signum(v), COLLISION_DAMPING)) ELSE v
        p2 == IF FGt(p1, hi) THEN hi ELSE p1
        v2 == IF FGt(p1, hi)
              THEN FMul(v1, FMul(FNeg(Signum(v1)), COLLISION_DAMPING)) ELSE v1
    IN  [p |-> p2, v |-> v2]

resolve_collisions(p, v) ==
    LET ax == CollideAxis(p.x, v.x, left(bounding_box), right(bounding_box))
        ay == CollideAxis(p.y, v.y, top(bounding_box), bottom(bounding_box))
    IN  [p |-> Vec2(ax.p, ay.p), v |-> Vec2(ax.v, ay.v)]

---------------------------------------------------------------------------
(* State, and the history the properties below read.                       *)

VARIABLES
    positions,            \* Vec<Vec2>, indexed by particle
    predicted_positions,  \* Vec<Vec2>
    velocities,           \* Vec<Vec2>
    densities,            \* Vec<f32>
    spatial_lookup,       \* Vec<(particle_idx, cell_key)>
    start_indices,        \* Vec<usize>
    last_update_offset,   \* f32
    rng,                  \* ThreadRng: the place in RngStream
    call,                 \* history: the last update call and the ticks it ran
    trace,                \* history: the values inside the last tick
    updates,              \* history: number of update calls so far
    totals,               \* history: ticks run and elapsed time passed, in all
    query,                \* history: how the last neighbour query ended
    paused,               \* Engine::run: paused
    cursor_pos,           \* Engine::run: cursor_pos, as the world position it maps to
    cursor_button,        \* Engine::run: cursor_button
    cursor_pressed,       \* Engine::run: cursor_pressed
    control_flow,         \* the event loop's ControlFlow when the callback returned
    elapsed,              \* Engine::run: time.elapsed(), the clock minus time
    held,                 \* history: the pointer buttons that are down
    pressed_last,         \* history: the button of the latest press
    since_unpause,        \* history: clock time since the last frame or change to unpaused
    paused_for,           \* history: clock time spent in the latest pause
    pause_cause,          \* history: the event that began the latest pause
    draws,                \* history: number of frames drawn
    last_event            \* history: the event the callback handled last

state_vars == << positions, predicted_positions, velocities, densities, spatial_lookup,
                 start_indices, last_update_offset, rng >>

engine_vars == << paused, cursor_pos, cursor_button, cursor_pressed, control_flow,
                  elapsed, held, pressed_last, since_unpause, paused_for,
                  pause_cause, draws, last_event >>

vars == << state_vars, call, trace, updates, totals, query, engine_vars >>

\* The trace before any tick has run.
NoTrace ==
    [ran |-> FALSE, interaction |-> None, rng |-> 1,
     start_indices |-> [i \in ParticleIdx |-> USIZE_MAX],
     positions |-> [i \in ParticleIdx |-> ZERO],
     velocities |-> [i \in ParticleIdx |-> ZERO],
     input_velocities |-> [i \in ParticleIdx |-> ZERO],
     force |-> [i \in ParticleIdx |-> ZERO],
     moved_positions |-> [i \in ParticleIdx |-> ZERO],
     moved_velocities |-> [i \in ParticleIdx |-> ZERO]]

\* The fields of State that tick reads and writes, as one record, with the
\* histories: log grows by the interaction each tick is given, trace keeps
\* the values the last tick went through.
Fields ==
    [positions |-> positions, predicted_positions |-> predicted_positions,
     velocities |-> velocities, densities |-> densities,
     spatial_lookup |-> spatial_lookup, start_indices |-> start_indices,
     rng |-> rng, log |-> << >>, trace |-> trace]

\* The velocities the first step of tick leaves, and the start of the trace
\* of this tick.
StoreInput(s, interaction, input_velocities) ==
    [s EXCEPT
        !.velocities = input_velocities,
        !.log = Append(s.log, interaction),
        !.trace = [NoTrace EXCEPT !.ran = TRUE, !.interaction = interaction,
                                  !.rng = s.rng,
                                  !.start_indices = s.start_indices,
                                  !.positions = s.positions,
                                  !.velocities = s.velocities,
                                  !.input_velocities = input_velocities]]

\* The "apply user input" step with Repel given the strength of Suck.
ApplyUserInputAlwaysSuck(s, interaction) ==
    StoreInput(s, interaction, Force([i \in ParticleIdx |->
        IF interaction.kind = "None" THEN s.velocities[i]
        ELSE VAdd(s.velocities[i],
                  interaction_force(s.positions, s.velocities, interaction.pos,
                                    INTERACTION_RADIUS, INTERACTION_STRENGTH, i))]))

\* tick: apply user input
ApplyUserInput(s, interaction) ==
    LET strength == IF interaction.kind = "Repel"
                    THEN -INTERACTION_STRENGTH ELSE INTERACTION_STRENGTH
    IN  StoreInput(s, interaction, Force([i \in ParticleIdx |->
            IF interaction.kind = "None" THEN s.velocities[i]
            ELSE VAdd(s.velocities[i],
                      interaction_force(s.positions, s.velocities, interaction.pos,
                                        INTERACTION_RADIUS, strength, i))]))

\* The lookup stored, and positions put in the order of the sorted lookup.
StoreLookupSortingPositions(s, lookup) ==
    [s EXCEPT !.spatial_lookup = lookup.spatial_lookup,
              !.start_indices = lookup.start_indices,
              !.positions = Force([i \in ParticleIdx |->
                                s.positions[lookup.spatial_lookup[i].idx]])]

\* tick: self.update_spatial_lookup()
StoreLookup(s, lookup) ==
    [s EXCEPT !.spatial_lookup = lookup.spatial_lookup,
              !.start_indices = lookup.start_indices]

UpdateSpatialLookup(s) ==
    StoreLookup(s, update_spatial_lookup(s.positions, s.start_indices))

\* tick: predict next positions
PredictNextPositions(s) ==
    [s EXCEPT !.predicted_positions = Force([i \in DOMAIN s.positions |->
        VAdd(s.positions[i], VScale(s.velocities[i], TICK_DELTA))])]

\* tick: calculate densities
CalculateDensities(s) ==
    [s EXCEPT !.densities = Force([i \in DOMAIN s.positions |->
        calculate_density(s.positions, s.spatial_lookup, s.start_indices, i)])]

\* tick: calculate velocities.  force[i] is the pressure_force of particle i.
AddPressure(s, delta_time, force) ==
    [s EXCEPT
        !.velocities = Force([i \in ParticleIdx |->
            VAdd(s.velocities[i],
                 VScale(VDiv(force[i], s.densities[i]), delta_time))]),
        !.rng = RngAfter(s.rng, Cardinality(DrawingPairs(s.predicted_positions))),
        !.trace = [s.trace EXCEPT !.force = force]]

CalculateVelocities(s, delta_time) ==
    AddPressure(s, delta_time, Force([i \in ParticleIdx |->
        calculate_pressure_force(s.predicted_positions, s.densities, s.rng, i)]))

\* tick: move particles
MoveParticles(s, delta_time) ==
    [s EXCEPT !.positions = Force([i \in ParticleIdx |->
        VAdd(s.positions[i], VScale(s.velocities[i], delta_time))])]

\* tick: self.resolve_collisions().  hit[i] is particle i after its turn.
StoreCollisions(s, hit) ==
    [s EXCEPT
        !.positions = Force([i \in ParticleIdx |-> hit[i].p]),
        !.velocities = Force([i \in ParticleIdx |-> hit[i].v]),
        !.trace = [s.trace EXCEPT !.moved_positions = s.positions,
                                  !.moved_velocities = s.velocities]]

ResolveCollisions(s) ==
    StoreCollisions(s, Force([i \in ParticleIdx |->
        resolve_collisions(s.positions[i], s.velocities[i])]))

\* The tick predicting the positions before the user input is applied.
TickPredictingFirst(s, delta_time, interaction) ==
    ResolveCollisions(
      MoveParticles(
        CalculateVelocities(
          CalculateDensities(
            UpdateSpatialLookup(
              ApplyUserInput(
                PredictNextPositions(s), interaction))),
          delta_time),
        delta_time))

\* State::tick
Tick(s, delta_time, interaction) ==
    ResolveCollisions(
      MoveParticles(
        CalculateVelocities(
          CalculateDensities(
            PredictNextPositions(
              UpdateSpatialLookup(
                ApplyUserInput(s, interaction)))),
          delta_time),
        delta_time))

RECURSIVE RunTicks(_, _, _, _)

\* The loop with t starting at zero: a tick for any leftover time.
RunTicksFromZero(s, t, end, interaction) ==
    IF FLt(FSub(t, TICK_DELTA), end)
    THEN RunTicks(Tick(s, TICK_DELTA, interaction), FAdd(t, TICK_DELTA), end, interaction)
    ELSE s

\* The loop handing the interaction to its first tick only.
RunTicksInputOnce(s, t, end, interaction) ==
    IF FLt(t, end)
    THEN RunTicks(Tick(s, TICK_DELTA, interaction), FAdd(t, TICK_DELTA), end, None)
    ELSE s

\* The loop of State::update: t runs from TICK_DELTA in steps of TICK_DELTA.
RunTicks(s, t, end, interaction) ==
    IF FLt(t, end)
    THEN RunTicks(Tick(s, TICK_DELTA, interaction), FAdd(t, TICK_DELTA), end, interaction)
    ELSE s

\* The leftover kept as what the loop did not consume: end less one
\* TICK_DELTA for every tick run.
StoreUpdateSubtractingTicks(s, end, delta_time, interaction) ==
    /\ positions' = s.positions
    /\ predicted_positions' = s.predicted_positions
    /\ velocities' = s.velocities
    /\ densities' = s.densities
    /\ spatial_lookup' = s.spatial_lookup
    /\ start_indices' = s.start_indices
    /\ rng' = s.rng
    /\ last_update_offset' = FSub(end, Len(s.log) * TICK_DELTA)
    /\ trace' = s.trace
    /\ call' = [delta_time |-> delta_time, interaction |-> interaction,
                offset |-> last_update_offset, ticks |-> s.log]
    /\ totals' = [ticks |-> totals.ticks + Len(s.log),
                  elapsed |-> FAdd(totals.elapsed, delta_time)]
    /\ UNCHANGED query

\* The fields after the loop of update, and the history of the call.
StoreUpdate(s, end, delta_time, interaction) ==
    /\ positions' = s.positions
    /\ predicted_positions' = s.predicted_positions
    /\ velocities' = s.velocities
    /\ densities' = s.densities
    /\ spatial_lookup' = s.spatial_lookup
    /\ start_indices' = s.start_indices
    /\ rng' = s.rng
    /\ last_update_offset' = end % TICK_DELTA
    /\ trace' = s.trace
    /\ call' = [delta_time |-> delta_time, interaction |-> interaction,
                offset |-> last_update_offset, ticks |-> s.log]
    /\ totals' = [ticks |-> totals.ticks + Len(s.log),
                  elapsed |-> FAdd(totals.elapsed, delta_time)]
    /\ UNCHANGED query

\* State::update(delta_time, interaction)
Update(delta_time, interaction) ==
    StoreUpdate(RunTicks(Fields, TICK_DELTA, FAdd(last_update_offset, delta_time),
                         interaction),
                FAdd(last_update_offset, delta_time), delta_time, interaction)

---------------------------------------------------------------------------
(* The specification.                                                      *)

\* Positions generate_grid can produce: rng.gen::<f32>() * w + x lies in
\* [x, x + w), and two particles may get the same point.  Two points within
\* one smoothing radius of each other in neighbouring cells, and one far
\* from both, by the right and bottom walls.
InitPoints ==
    { Vec2((5 * Scale) \div 100, (5 * Scale) \div 100),
      Vec2((72 * Scale) \div 100, (5 * Scale) \div 100),
      Vec2((1598 * Scale) \div 100, (893 * Scale) \div 100) }

\* Elapsed times the host passes: none, one tick and a part of the next,
\* exactly three ticks.
ElapsedTimes == {0, TICK_DELTA + 1, 3 * TICK_DELTA}

\* Pointer positions, inside the box (map_window_pos_to_world_pos clamps):
\* the top left corner and a point near the bottom right corner.
NearPointer == Vec2(0, 0)

FarPointer == Vec2((1550 * Scale) \div 100, (850 * Scale) \div 100)

Interactions == {None, Suck(NearPointer), Repel(FarPointer)}

\* No neighbour query has been made.
NoQuery ==
    [asked |-> FALSE, panicked |-> FALSE, world_pos |-> ZERO, neighbours |-> << >>,
     lookup_len |-> 0, cell_keys |-> << >>]

\* Engine::run, "engine state": not paused, the cursor at the window's origin
\* (which maps to the top left corner of the box), no button seen or down.
EngineStart ==
    /\ paused = FALSE
    /\ cursor_pos = NearPointer
    /\ cursor_button = "Left"
    /\ cursor_pressed = FALSE
    /\ control_flow = "Poll"
    /\ elapsed = 0
    /\ held = {}
    /\ pressed_last = "None"
    /\ since_unpause = 0
    /\ paused_for = 0
    /\ pause_cause = "None"
    /\ draws = 0
    /\ last_event = [name |-> "None", was_paused |-> FALSE]

\* No update call and no query yet.
NoHistory ==
    /\ call = [delta_time |-> 0, interaction |-> None, offset |-> 0, ticks |-> << >>]
    /\ trace = NoTrace
    /\ updates = 0
    /\ totals = [ticks |-> 0, elapsed |-> 0]
    /\ query = NoQuery

\* State::new()
Init ==
    /\ positions \in [ParticleIdx -> InitPoints]
    /\ predicted_positions = [i \in ParticleIdx |-> ZERO]
    /\ velocities = [i \in ParticleIdx |-> ZERO]
    /\ densities = [i \in ParticleIdx |-> 0]
    /\ spatial_lookup = [i \in ParticleIdx |-> [idx |-> 0, key |-> 0]]
    /\ start_indices = [i \in ParticleIdx |-> USIZE_MAX]
    /\ last_update_offset = 0
    /\ rng \in 1 .. Len(RngStream)
    /\ NoHistory
    /\ EngineStart

\* The host calls update once per frame.
HostUpdate ==
    /\ updates < MaxUpdates
    /\ updates' = updates + 1
    /\ \E delta_time \in ElapsedTimes, interaction \in Interactions :
           Update(delta_time, interaction)
    /\ UNCHANGED engine_vars

Next == HostUpdate

Spec == Init /\ [][Next]_vars


---------------------------------------------------------------------------
(* The spatial lookup on its own: update_spatial_lookup run once on the     *)
(* arrays of a State of LookupCount particles.                              *)

\* Number of particles in the states of LookupSpec.
LookupCount == 4

LookupIdx == 0 .. (LookupCount - 1)

\* Two positions in cell (0, 0), one in cell (1, 0) at exactly one smoothing
\* radius from the first, one in cell (4, 0), whose hash differs from that of
\* cell (0, 0) by a multiple of four, and the position of a particle that
\* went NaN.
LookupPoints ==
    { Vec2((5 * Scale) \div 100, (5 * Scale) \div 100),
      Vec2((60 * Scale) \div 100, (5 * Scale) \div 100),
      Vec2((75 * Scale) \div 100, (5 * Scale) \div 100),
      Vec2((285 * Scale) \div 100, (5 * Scale) \div 100),
      Vec2(NaN, NaN) }

\* The lookup arrays as State::new() builds them.
NewLookup ==
    [spatial_lookup |-> [i \in LookupIdx |-> [idx |-> 0, key |-> 0]],
     start_indices |-> [i \in LookupIdx |-> USIZE_MAX]]

\* Where the particles were in the tick before: all in cell (0, 0), or the
\* first there and the others in cell (2, 0), whose key no cell of
\* LookupPoints has.
EarlierPositions ==
    { [i \in LookupIdx |-> Vec2((5 * Scale) \div 100, (5 * Scale) \div 100)],
      [i \in LookupIdx |->
          IF i = 0 THEN Vec2((5 * Scale) \div 100, (5 * Scale) \div 100)
          ELSE Vec2((145 * Scale) \div 100, (5 * Scale) \div 100)] }

\* The lookup arrays a tick can start with: new, or as the tick before
\* left them.
EarlierLookups ==
    {NewLookup} \cup
    {update_spatial_lookup(earlier, NewLookup.start_indices) :
        earlier \in EarlierPositions}

\* A State at the start of a tick, before update_spatial_lookup.
LookupInit ==
    /\ positions \in [LookupIdx -> LookupPoints]
    /\ predicted_positions = [i \in LookupIdx |-> ZERO]
    /\ velocities = [i \in LookupIdx |-> ZERO]
    /\ densities = [i \in LookupIdx |-> 0]
    /\ \E earlier \in EarlierLookups :
        /\ spatial_lookup = earlier.spatial_lookup
        /\ start_indices = earlier.start_indices
    /\ last_update_offset = 0
    /\ rng = 1
    /\ NoHistory
    /\ EngineStart

\* The lookup of s stored in the state; trace.positions are the positions
\* it was built from and trace.start_indices the slots as they were before.
StoreLookupRun(s) ==
    /\ spatial_lookup' = s.spatial_lookup
    /\ start_indices' = s.start_indices
    /\ trace' = [NoTrace EXCEPT !.ran = TRUE, !.positions = s.positions,
                                !.start_indices = start_indices]
    /\ UNCHANGED << positions, predicted_positions, velocities, densities,
                    last_update_offset, rng, call, updates, totals, query,
                    engine_vars >>

\* self.update_spatial_lookup(), once.
RunUpdateSpatialLookup ==
    /\ ~trace.ran
    /\ StoreLookupRun(UpdateSpatialLookup(Fields))

LookupNext == RunUpdateSpatialLookup

LookupSpec == LookupInit /\ [][LookupNext]_vars

---------------------------------------------------------------------------
(* The first half of a tick on its own: the lookup, the prediction and the  *)
(* density pass run once on a State of LookupCount particles at rest.       *)

\* The arrays of s stored in the state; trace.positions are the positions
\* the passes read.
StoreDensityRun(s) ==
    /\ spatial_lookup' = s.spatial_lookup
    /\ start_indices' = s.start_indices
    /\ predicted_positions' = s.predicted_positions
    /\ densities' = s.densities
    /\ trace' = [NoTrace EXCEPT !.ran = TRUE, !.positions = s.positions,
                                !.start_indices = start_indices]
    /\ UNCHANGED << positions, velocities, last_update_offset, rng, call,
                    updates, totals, query, engine_vars >>

\* tick, from self.update_spatial_lookup() to the end of the density loop.
RunDensityPass ==
    /\ ~trace.ran
    /\ StoreDensityRun(
           CalculateDensities(PredictNextPositions(UpdateSpatialLookup(Fields))))

DensityNext == RunDensityPass

\* Positions a few hundredths apart in cell (0, 0), one in cell (1, 0)
\* within a smoothing radius of them, and one far from all.
DensityPoints ==
    { Vec2((5 * Scale) \div 100, (4 * Scale) \div 100),
      Vec2((4 * Scale) \div 100, (4 * Scale) \div 100),
      Vec2((30 * Scale) \div 100, (20 * Scale) \div 100),
      Vec2((72 * Scale) \div 100, (5 * Scale) \div 100),
      Vec2((285 * Scale) \div 100, (5 * Scale) \div 100) }

\* A State at rest at the start of a tick.
DensityInit ==
    /\ positions \in [LookupIdx -> DensityPoints]
    /\ predicted_positions = [i \in LookupIdx |-> ZERO]
    /\ velocities = [i \in LookupIdx |-> ZERO]
    /\ densities = [i \in LookupIdx |-> 0]
    /\ spatial_lookup = NewLookup.spatial_lookup
    /\ start_indices = NewLookup.start_indices
    /\ last_update_offset = 0
    /\ rng = 1
    /\ NoHistory
    /\ EngineStart

DensitySpec == DensityInit /\ [][DensityNext]_vars

---------------------------------------------------------------------------
(* The neighbour query on its own: States of zero to QueryCount particles,  *)
(* update_spatial_lookup run once, then get_neighbours_by_pos called.       *)

\* Largest number of particles in the states of QuerySpec.
QueryCount == 2

\* Positions asked about: those of LookupPoints, the NaN one included.
QueryPositions == LookupPoints

\* A State of n particles at the start of a tick, as State::new() would
\* build it were PARTICLE_COUNT n.
QueryInit ==
    /\ \E n \in 0 .. QueryCount :
        /\ positions \in [0 .. (n - 1) -> LookupPoints]
        /\ predicted_positions = [i \in 0 .. (n - 1) |-> ZERO]
        /\ velocities = [i \in 0 .. (n - 1) |-> ZERO]
        /\ densities = [i \in 0 .. (n - 1) |-> 0]
        /\ spatial_lookup = [i \in 0 .. (n - 1) |-> [idx |-> 0, key |-> 0]]
        /\ start_indices = [i \in 0 .. (n - 1) |-> USIZE_MAX]
    /\ last_update_offset = 0
    /\ rng = 1
    /\ NoHistory
    /\ EngineStart

\* A call of get_neighbours_by_pos and how it ends.  The first pass of the
\* loop over OFFSETS takes a remainder by self.spatial_lookup.len(): with a
\* length of zero that is a remainder by zero, on which the thread panics.
NeighbourQueryOutcome(world_pos) ==
    IF len(spatial_lookup) = 0
    THEN [asked |-> TRUE, panicked |-> TRUE, world_pos |-> world_pos,
          neighbours |-> << >>, lookup_len |-> 0, cell_keys |-> << >>]
    ELSE [asked |-> TRUE, panicked |-> FALSE, world_pos |-> world_pos,
          neighbours |-> get_neighbours_by_pos(positions, spatial_lookup,
                                               start_indices, world_pos),
          lookup_len |-> len(spatial_lookup),
          cell_keys |-> ProbedKeys(world_pos, len(spatial_lookup))]

\* self.get_neighbours_by_pos(world_pos), after the lookup was built.
QueryNeighbours ==
    /\ trace.ran
    /\ \E world_pos \in QueryPositions : query' = NeighbourQueryOutcome(world_pos)
    /\ UNCHANGED << state_vars, call, trace, updates, totals, engine_vars >>

QueryNext == RunUpdateSpatialLookup \/ QueryNeighbours

QuerySpec == QueryInit /\ [][QueryNext]_vars

---------------------------------------------------------------------------
(* The event loop of Engine::run: the window events that change the engine  *)
(* state, and the frame, which calls State::update.                         *)

\* Number of frames that call update in the behaviours of EngineSpec.
MaxFrames == 1

\* MouseButton values the events carry.
Buttons == {"Left", "Right"}

\* ElementState
ElementStates == {"Pressed", "Released"}

\* World positions the cursor positions of the events map to.
CursorPositions == {NearPointer, FarPointer}

\* Amounts of clock time that pass between two events: one tick and a part
\* of the next.
FrameTimes == {TICK_DELTA + 1}

\* How many such amounts pass without a frame or a change to unpaused.
MaxWait == 1

\* The loop runs the callback until the control flow is Exit.
Running == control_flow # "Exit"

\* The callback returned from the named event; control_flow.set_poll() at
\* its start is what the control flow is left at unless the handler sets it.
Handled(name) == last_event' = [name |-> name, was_paused |-> paused]

\* set_pause! without the time stamp.
SetPauseKeepingTime(value) ==
    /\ paused' = value
    /\ control_flow' = IF value THEN "Wait" ELSE "Poll"
    /\ elapsed' = elapsed

\* set_pause!
SetPause(value) ==
    /\ paused' = value
    /\ control_flow' = IF value THEN "Wait" ELSE "Poll"
    /\ elapsed' = IF value THEN elapsed ELSE 0

\* An event whose handler is set_pause!(value).
PauseEvent(name, value) ==
    /\ SetPause(value)
    /\ Handled(name)
    /\ since_unpause' = IF paused /\ ~value THEN 0 ELSE since_unpause
    /\ paused_for' = IF ~paused /\ value THEN 0 ELSE paused_for
    /\ pause_cause' = IF ~paused /\ value THEN name ELSE pause_cause
    /\ UNCHANGED << state_vars, call, trace, updates, totals, query,
                    cursor_pos, cursor_button, cursor_pressed, held,
                    pressed_last, draws >>

\* An event that no arm of the match handles (`_ => {}`), or whose arm
\* changes nothing of the engine state kept here.
Ignored(name) ==
    /\ control_flow' = "Poll"
    /\ Handled(name)
    /\ UNCHANGED << state_vars, call, trace, updates, totals, query,
                    paused, cursor_pos, cursor_button, cursor_pressed, elapsed,
                    held, pressed_last, since_unpause, paused_for, pause_cause,
                    draws >>

\* WindowEvent::Focused(focused)
Focused ==
    \E focused \in BOOLEAN :
        PauseEvent(IF focused THEN "FocusGained" ELSE "FocusLost", ~focused)

\* The Space arm without its guard on the key state.
SpaceKeyAnyState(state) == PauseEvent("Space" \o state, ~paused)

\* WindowEvent::KeyboardInput, Space
SpaceKey(state) ==
    IF state = "Pressed" THEN PauseEvent("SpacePressed", ~paused)
    ELSE Ignored("SpaceReleased")

KeyboardInput == \E state \in ElementStates : SpaceKey(state)

\* WindowEvent::CloseRequested, and Escape
CloseRequested ==
    /\ control_flow' = "Exit"
    /\ Handled("CloseRequested")
    /\ UNCHANGED << state_vars, call, trace, updates, totals, query,
                    paused, cursor_pos, cursor_button, cursor_pressed, elapsed,
                    held, pressed_last, since_unpause, paused_for, pause_cause,
                    draws >>

\* Every other window event, Event::Resumed and Event::Suspended.
OtherEvent == Ignored("Other")

\* WindowEvent::CursorMoved { position }
CursorMoved ==
    /\ \E position \in CursorPositions : cursor_pos' = position
    /\ control_flow' = "Poll"
    /\ Handled("CursorMoved")
    /\ UNCHANGED << state_vars, call, trace, updates, totals, query,
                    paused, cursor_button, cursor_pressed, elapsed, held,
                    pressed_last, since_unpause, paused_for, pause_cause, draws >>

\* The handler remembering a press and never a release.
MouseInputPressOnly(state, button) ==
    /\ cursor_pressed' = (cursor_pressed \/ state = "Pressed")
    /\ cursor_button' = button

\* WindowEvent::MouseInput { state, button }
MouseInput(state, button) ==
    /\ cursor_pressed' = (state = "Pressed")
    /\ cursor_button' = button

\* A press or a release of a pointer button reaches the window; held
\* follows the buttons that are down and pressed_last the presses.
MouseEvent ==
    /\ \E state \in ElementStates, button \in Buttons :
        /\ MouseInput(state, button)
        /\ held' = IF state = "Pressed" THEN held \cup {button} ELSE held \ {button}
        /\ pressed_last' = IF state = "Pressed" THEN button ELSE pressed_last
    /\ control_flow' = "Poll"
    /\ Handled("MouseInput")
    /\ UNCHANGED << state_vars, call, trace, updates, totals, query,
                    paused, cursor_pos, elapsed, since_unpause, paused_for,
                    pause_cause, draws >>

\* The Option<Interaction> the frame passes to update.
PointerInteraction ==
    IF cursor_pressed
    THEN IF cursor_button = "Right" THEN Suck(cursor_pos) ELSE Repel(cursor_pos)
    ELSE None

\* The frame: update with the time since the time stamp, the time stamp
\* set to now, and the draw (the GL context exists from Event::Resumed on,
\* which precedes the first frame).
Frame ==
    /\ updates < MaxFrames
    /\ updates' = updates + 1
    /\ Update(elapsed, PointerInteraction)
    /\ elapsed' = 0
    /\ draws' = draws + 1
    /\ since_unpause' = 0
    /\ control_flow' = "Poll"
    /\ Handled("MainEventsCleared")
    /\ UNCHANGED << paused, cursor_pos, cursor_button, cursor_pressed, held,
                    pressed_last, paused_for, pause_cause >>

\* The arm of Event::MainEventsCleared that returns at once.
Idle ==
    /\ control_flow' = "Poll"
    /\ Handled("MainEventsCleared")
    /\ UNCHANGED << state_vars, call, trace, updates, totals, query,
                    paused, cursor_pos, cursor_button, cursor_pressed, elapsed,
                    held, pressed_last, since_unpause, paused_for, pause_cause,
                    draws >>

\* Event::MainEventsCleared with no test of paused.
MainEventsClearedWhilePaused == Running /\ Frame

\* Event::MainEventsCleared: nothing while paused, else one update call with
\* the time since the time stamp, and the draw.
MainEventsCleared == Running /\ IF paused THEN Idle ELSE Frame

\* Clock time passes between two events.
PassTime ==
    /\ Running
    /\ updates < MaxFrames
    /\ \E amount \in FrameTimes :
        /\ since_unpause < MaxWait * amount
        /\ elapsed' = elapsed + amount
        /\ since_unpause' = since_unpause + amount
        /\ paused_for' = IF paused THEN paused_for + amount ELSE paused_for
    /\ UNCHANGED << state_vars, call, trace, updates, totals, query,
                    paused, cursor_pos, cursor_button, cursor_pressed,
                    control_flow, held, pressed_last, pause_cause, draws,
                    last_event >>

\* The behaviours end with the last frame: events are taken while a frame
\* is still to come.
WindowEvent ==
    /\ updates < MaxFrames
    /\ Running
    /\ (Focused \/ KeyboardInput \/ CursorMoved \/ MouseEvent \/ OtherEvent
        \/ CloseRequested)

EngineNext == WindowEvent \/ PassTime \/ MainEventsCleared

\* State::new() with one particle generated near the corner of the box and
\* the others a cell away, and the engine state of Engine::run.
EngineInit ==
    /\ positions = [i \in ParticleIdx |->
                       IF i = 0 THEN Vec2((5 * Scale) \div 100, (5 * Scale) \div 100)
                       ELSE Vec2((72 * Scale) \div 100, (5 * Scale) \div 100)]
    /\ predicted_positions = [i \in ParticleIdx |-> ZERO]
    /\ velocities = [i \in ParticleIdx |-> ZERO]
    /\ densities = [i \in ParticleIdx |-> 0]
    /\ spatial_lookup = [i \in ParticleIdx |-> [idx |-> 0, key |-> 0]]
    /\ start_indices = [i \in ParticleIdx |-> USIZE_MAX]
    /\ last_update_offset = 0
    /\ rng = 1
    /\ NoHistory
    /\ EngineStart

EngineSpec == EngineInit /\ [][EngineNext]_vars

---------------------------------------------------------------------------
(* Properties.                                                             *)

\* C1: one call update(elapsed, interaction) runs tick exactly
\* floor((leftover + elapsed) / TICK_DELTA) times, so that from leftover 0
\* update(3 * TICK_DELTA, interaction) runs three ticks.
C1_TickCountIsFloor ==
    updates > 0 =>
        Len(call.ticks) = (call.offset + call.delta_time) \div TICK_DELTA

\* C2: update(0.0, None) runs no tick and leaves positions,
\* predicted_positions, velocities, densities, the spatial lookup and
\* last_update_offset as they were.
C2_ZeroUpdateIsNoOp ==
    [][ (updates' = updates + 1 /\ call'.delta_time = 0 /\ call'.interaction = None)
        => /\ call'.ticks = << >>
           /\ UNCHANGED << positions, predicted_positions, velocities, densities,
                           spatial_lookup, start_indices, last_update_offset >> ]_vars

\* An update(0.0, None) made with leftover time carried over, after a tick
\* has run.
C2_Witness ==
    /\ updates = 2
    /\ call.delta_time = 0 /\ call.interaction = None
    /\ call.offset > 0
    /\ trace.ran

\* C3: every tick run by one update call is given the interaction (kind
\* and position) that was passed to that call.
C3_SameInteractionEveryTick ==
    /\ \A k \in 1 .. Len(call.ticks) : call.ticks[k] = call.interaction
    /\ (call.ticks # << >>) => trace.interaction = call.interaction

\* An update that ran two ticks or more with a pointer interaction.
C3_Witness ==
    /\ Len(call.ticks) >= 2
    /\ call.interaction.kind = "Repel"

\* C4: in every state the host can observe every particle position lies in
\* the bounding box, left <= x <= right and top <= y <= bottom.
C4_PositionsInBox ==
    \A i \in ParticleIdx :
        /\ FLe(left(bounding_box), positions[i].x)
        /\ FLe(positions[i].x, right(bounding_box))
        /\ FLe(top(bounding_box), positions[i].y)
        /\ FLe(positions[i].y, bottom(bounding_box))

\* The set of particle indices get_neighbours_by_pos returns for q, with
\* the lookup of the state and the positions it was built from.
NeighbourSet(q) ==
    LET neighbours == get_neighbours_by_pos(trace.positions, spatial_lookup,
                                            start_indices, q)
    IN  {neighbours[k] : k \in 1 .. Len(neighbours)}

\* The particles within one smoothing radius of q, by a pass over all.
BruteForceSet(q) ==
    {j \in DOMAIN trace.positions :
        FLe(LengthSquared(VSub(trace.positions[j], q)),
            SMOOTHING_RADIUS * SMOOTHING_RADIUS)}

\* Query positions: every particle's own, and points in other cells.
QueryPoints ==
    {trace.positions[j] : j \in DOMAIN trace.positions}
    \cup { Vec2((215 * Scale) \div 100, (5 * Scale) \div 100),
           Vec2((145 * Scale) \div 100, (5 * Scale) \div 100),
           Vec2((5 * Scale) \div 100, (75 * Scale) \div 100),
           Vec2((40 * Scale) \div 100, (40 * Scale) \div 100) }

\* The key of the cell particle j was in when the lookup was built.
KeyOf(j) ==
    CellKey(world_pos_to_cell_pos(trace.positions[j], SMOOTHING_RADIUS),
            len(trace.positions))

\* C5: once update_spatial_lookup has run on the positions, the set of
\* indices get_neighbours_by_pos(q) returns is, for every query position q,
\* the set of particles with squared distance to q at most
\* SMOOTHING_RADIUS^2, also when distinct cells hash to the same key.
C5_NeighboursAreBruteForce ==
    trace.ran => \A q \in QueryPoints : NeighbourSet(q) = BruteForceSet(q)

\* Two particles in distinct cells with the same key, of which a query
\* returns one, with a third particle, and not the other.
C5_Witness ==
    /\ trace.ran
    /\ \E i, j \in DOMAIN trace.positions :
        /\ world_pos_to_cell_pos(trace.positions[i], SMOOTHING_RADIUS)
             # world_pos_to_cell_pos(trace.positions[j], SMOOTHING_RADIUS)
        /\ KeyOf(i) = KeyOf(j)
        /\ i \in NeighbourSet(trace.positions[i])
        /\ j \notin NeighbourSet(trace.positions[i])
        /\ \E k \in NeighbourSet(trace.positions[i]) :
               trace.positions[k] # trace.positions[i]

\* C6: after the density pass of a tick every particle has a density of at
\* least smoothing_kernel(0, SMOOTHING_RADIUS), which is positive, so the
\* pressure pass never divides by zero.
C6_DensityAtLeastSelf ==
    trace.ran =>
        /\ FGt(smoothing_kernel(0, SMOOTHING_RADIUS), 0)
        /\ \A i \in ParticleIdx :
               FGe(densities[i], smoothing_kernel(0, SMOOTHING_RADIUS))

\* C7: positions, predicted_positions, velocities and densities keep
\* PARTICLE_COUNT elements, and index i is the same particle in all of
\* them: a tick moves particle i from its own position by its own
\* velocity, and the sort orders spatial_lookup only, which holds every
\* index once, with the key of that particle's cell, by ascending key.
C7_ArraysAligned ==
    /\ DOMAIN positions = ParticleIdx
    /\ DOMAIN predicted_positions = ParticleIdx
    /\ DOMAIN velocities = ParticleIdx
    /\ DOMAIN densities = ParticleIdx
    /\ trace.ran =>
        /\ \A i \in ParticleIdx :
            /\ trace.moved_positions[i] =
                   VAdd(trace.positions[i],
                        VScale(trace.moved_velocities[i], TICK_DELTA))
            /\ positions[i] =
                   resolve_collisions(trace.moved_positions[i],
                                      trace.moved_velocities[i]).p
            /\ velocities[i] =
                   resolve_collisions(trace.moved_positions[i],
                                      trace.moved_velocities[i]).v
            /\ \E k \in DOMAIN spatial_lookup :
                   /\ spatial_lookup[k] = [idx |-> i, key |-> KeyOf(i)]
                   /\ \A m \in DOMAIN spatial_lookup :
                          spatial_lookup[m].idx = i => m = k
        /\ \A k, m \in DOMAIN spatial_lookup :
               k < m => spatial_lookup[k].key <= spatial_lookup[m].key

\* A tick in which the sort put particle 1 before particle 0 and both moved.
C7_Witness ==
    /\ trace.ran
    /\ spatial_lookup[0].idx = 1
    /\ spatial_lookup[0].key < spatial_lookup[1].key
    /\ \A i \in ParticleIdx :
           ~VNaN(positions[i]) /\ positions[i] # trace.positions[i]
    /\ positions[0] # positions[1]

\* C8: when two distinct particles have equal predicted positions in the
\* pressure pass, the fallback draws a direction that is finite and not of
\* zero length, so the velocities after the tick contain no NaN.
C8_FallbackGivesNoNaN ==
    (trace.ran /\ \E i, j \in ParticleIdx :
                      i # j /\ Coincident(predicted_positions, i, j))
    => \A i \in ParticleIdx : ~VNaN(velocities[i])

\* The position and velocity particle i had when resolve_collisions began.
Moved(i) == [p |-> trace.moved_positions[i], v |-> trace.moved_velocities[i]]

\* C9: a particle beyond a wall on one axis, with its velocity on that axis
\* pointing out of the box, is put on the wall by resolve_collisions and
\* gets -COLLISION_DAMPING times its velocity on that axis; an axis on
\* which it is inside the box is left as it was.
C9_CollisionReflects ==
    trace.ran => \A i \in ParticleIdx :
        /\ (FGt(Moved(i).p.x, right(bounding_box)) /\ FGt(Moved(i).v.x, 0)) =>
               /\ positions[i].x = right(bounding_box)
               /\ velocities[i].x = FMul(FNeg(COLLISION_DAMPING), Moved(i).v.x)
        /\ (FLt(Moved(i).p.x, left(bounding_box)) /\ FLt(Moved(i).v.x, 0)) =>
               /\ positions[i].x = left(bounding_box)
               /\ velocities[i].x = FMul(FNeg(COLLISION_DAMPING), Moved(i).v.x)
        /\ (FGt(Moved(i).p.y, bottom(bounding_box)) /\ FGt(Moved(i).v.y, 0)) =>
               /\ positions[i].y = bottom(bounding_box)
               /\ velocities[i].y = FMul(FNeg(COLLISION_DAMPING), Moved(i).v.y)
        /\ (FLt(Moved(i).p.y, top(bounding_box)) /\ FLt(Moved(i).v.y, 0)) =>
               /\ positions[i].y = top(bounding_box)
               /\ velocities[i].y = FMul(FNeg(COLLISION_DAMPING), Moved(i).v.y)
        /\ (FLe(left(bounding_box), Moved(i).p.x)
            /\ FLe(Moved(i).p.x, right(bounding_box))) =>
               positions[i].x = Moved(i).p.x /\ velocities[i].x = Moved(i).v.x
        /\ (FLe(top(bounding_box), Moved(i).p.y)
            /\ FLe(Moved(i).p.y, bottom(bounding_box))) =>
               positions[i].y = Moved(i).p.y /\ velocities[i].y = Moved(i).v.y

\* A particle that went past the right wall moving right, inside the box on
\* the y axis with a velocity on that axis too.
C9_Witness ==
    /\ trace.ran
    /\ \E i \in ParticleIdx :
        /\ FGt(Moved(i).p.x, right(bounding_box)) /\ FGt(Moved(i).v.x, 0)
        /\ FLt(top(bounding_box), Moved(i).p.y)
        /\ FLt(Moved(i).p.y, bottom(bounding_box))
        /\ FGt(Moved(i).v.y, 0)
        /\ FLt(velocities[i].x, 0)

\* Particle i began the last tick at rest, and the tick predicted every
\* other particle at least one smoothing radius away from it.
AtRestAndFar(i) ==
    /\ trace.velocities[i] = ZERO
    /\ \A j \in ParticleIdx \ {i} :
           FGe(Length(VSub(predicted_positions[j], predicted_positions[i])),
               SMOOTHING_RADIUS)

\* C10: in a tick without interaction, a particle at rest whose predicted
\* distance to every other particle is at least SMOOTHING_RADIUS gets zero
\* pressure force, keeps zero velocity and stays where it was.
C10_FarParticleStaysPut ==
    (trace.ran /\ trace.interaction = None) =>
        \A i \in ParticleIdx :
            AtRestAndFar(i) =>
                /\ trace.force[i] = ZERO
                /\ velocities[i] = ZERO
                /\ positions[i] = trace.positions[i]

\* A particle at rest and far from the other one in a tick without
\* interaction, while the other one is moving.
C10_Witness ==
    /\ trace.ran /\ trace.interaction = None
    /\ \E i, j \in ParticleIdx :
        /\ AtRestAndFar(i)
        /\ positions[i] = trace.positions[i]
        /\ ~VNaN(velocities[j]) /\ velocities[j] # ZERO


C12_NoButtonNoInteraction ==
    [][ (updates' = updates + 1 /\ held = {}) =>
            /\ call'.interaction = None
            /\ \A n \in 1 .. Len(call'.ticks) : call'.ticks[n] = None
            /\ (Len(call'.ticks) > 0 => trace'.input_velocities = trace'.velocities)
      ]_vars

\* A frame that ran a tick with no button down, after events for the right
\* button, the last of them its release.
C12_Witness ==
    /\ updates = 1
    /\ Len(call.ticks) > 0
    /\ held = {}
    /\ cursor_button = "Right"
    /\ call.interaction = None
    /\ trace.input_velocities = trace.velocities

\* C13: after any sequence of update calls from construction, the number of
\* ticks run in all, times TICK_DELTA, plus last_update_offset equals the sum
\* of the elapsed times passed to update.
C13_NoTimeDropped ==
    FAdd(totals.ticks * TICK_DELTA, last_update_offset) = totals.elapsed

\* C14: after every update call last_update_offset is the leftover before
\* the call plus the elapsed time, modulo TICK_DELTA, and in every reachable
\* state 0 <= last_update_offset < TICK_DELTA.
C14_OffsetIsRemainder ==
    /\ FGe(last_update_offset, 0)
    /\ FLt(last_update_offset, TICK_DELTA)
    /\ updates > 0 =>
           last_update_offset = FAdd(call.offset, call.delta_time) % TICK_DELTA

\* A second update that started from a leftover, ran a tick and left
\* another leftover.
C14_Witness ==
    /\ updates = 2
    /\ call.offset > 0
    /\ Len(call.ticks) > 0
    /\ last_update_offset > 0
    /\ last_update_offset # call.offset

\* The velocities the first step of a tick gives, from the positions and
\* velocities the tick started with.
InputVelocities(i) ==
    IF trace.interaction.kind = "None" THEN trace.velocities[i]
    ELSE VAdd(trace.velocities[i],
              interaction_force(trace.positions, trace.velocities,
                                trace.interaction.pos, INTERACTION_RADIUS,
                                IF trace.interaction.kind = "Repel"
                                THEN -INTERACTION_STRENGTH ELSE INTERACTION_STRENGTH,
                                i))

\* C15: in every tick the steps run once each and in this order: the
\* interaction on the velocities, the lookup rebuilt from the current
\* positions, the prediction (from the velocities the interaction left), the
\* densities, the pressure on the velocities, the move (with the velocities
\* the pressure left), and resolve_collisions, which writes positions and
\* velocities last.
C15_StagesInOrder ==
    trace.ran =>
        /\ spatial_lookup =
               update_spatial_lookup(trace.positions, trace.start_indices).spatial_lookup
        /\ start_indices =
               update_spatial_lookup(trace.positions, trace.start_indices).start_indices
        /\ \A i \in ParticleIdx :
            /\ trace.input_velocities[i] = InputVelocities(i)
            /\ predicted_positions[i] =
                   VAdd(trace.positions[i], VScale(InputVelocities(i), TICK_DELTA))
            /\ densities[i] =
                   calculate_density(trace.positions, spatial_lookup, start_indices, i)
            /\ trace.force[i] =
                   calculate_pressure_force(predicted_positions, densities, trace.rng, i)
            /\ trace.moved_velocities[i] =
                   VAdd(InputVelocities(i),
                        VScale(VDiv(trace.force[i], densities[i]), TICK_DELTA))
            /\ trace.moved_positions[i] =
                   VAdd(trace.positions[i],
                        VScale(trace.moved_velocities[i], TICK_DELTA))
            /\ positions[i] =
                   resolve_collisions(trace.moved_positions[i],
                                      trace.moved_velocities[i]).p
            /\ velocities[i] =
                   resolve_collisions(trace.moved_positions[i],
                                      trace.moved_velocities[i]).v

\* A tick in which every step changed something: the interaction a
\* velocity, the pressure a velocity, the move a position and
\* resolve_collisions a position, with no NaN anywhere.
C15_Witness ==
    /\ trace.ran
    /\ \E i \in ParticleIdx : trace.input_velocities[i] # trace.velocities[i]
    /\ \E i \in ParticleIdx : trace.moved_velocities[i] # trace.input_velocities[i]
    /\ \E i \in ParticleIdx : trace.moved_positions[i] # trace.positions[i]
    /\ \E i \in ParticleIdx : positions[i] # trace.moved_positions[i]
    /\ \A i \in ParticleIdx : ~IsNaN(positions[i].x) /\ ~IsNaN(positions[i].y)
                              /\ ~IsNaN(velocities[i].x) /\ ~IsNaN(velocities[i].y)

\* The density of particle i as the sum of the kernel over the neighbours
\* the query returns for predicted_positions[i], at the distances between
\* predicted positions.
RECURSIVE SumPredictedInfluence(_, _, _)
SumPredictedInfluence(i, neighbours, n) ==
    IF n > Len(neighbours) THEN 0
    ELSE FAdd(smoothing_kernel(Length(VSub(predicted_positions[neighbours[n]],
                                           predicted_positions[i])),
                               SMOOTHING_RADIUS),
              SumPredictedInfluence(i, neighbours, n + 1))

DensityAtPredicted(i) ==
    SumPredictedInfluence(i,
        get_neighbours_by_pos(trace.positions, spatial_lookup, start_indices,
                              predicted_positions[i]), 1)

\* The same sum over every particle: the kernel is zero from one smoothing
\* radius on.
DensityOverPredicted(i) ==
    SumPredictedInfluence(i, [n \in 1 .. PARTICLE_COUNT |-> n - 1], 1)

\* C16: after every tick densities[i] is the sum of W(|predicted[j] -
\* predicted[i]|, h) over the neighbours j of predicted[i], i itself
\* included: the density pass reads the predicted positions of the same tick.
C16_DensityFromPredicted ==
    (trace.ran /\ \A i \in ParticleIdx : ~IsNaN(densities[i])) =>
        \A i \in ParticleIdx :
            \/ densities[i] = DensityAtPredicted(i)
            \/ densities[i] = DensityOverPredicted(i)

\* The particles the neighbour query returns for predicted_positions[i].
NeighboursOfPredicted(i) ==
    LET neighbours == get_neighbours_by_pos(trace.positions, spatial_lookup,
                                            start_indices, predicted_positions[i])
    IN  {neighbours[n] : n \in 1 .. Len(neighbours)}

\* The particles whose predicted position lies within one smoothing radius
\* of predicted_positions[i].
WithinRadiusOfPredicted(i) ==
    {j \in ParticleIdx :
        FLe(LengthSquared(VSub(predicted_positions[j], predicted_positions[i])),
            SMOOTHING_RADIUS * SMOOTHING_RADIUS)}

\* The pressure force on i accumulated over the particles of others only.
RECURSIVE PressureOver(_, _)
PressureOver(i, others) ==
    IF others = {} THEN ZERO
    ELSE LET j == CHOOSE k \in others : TRUE
         IN  VAdd(PressureTerm(predicted_positions, densities, trace.rng, i, j),
                  PressureOver(i, others \ {j}))

\* C17: the pressure force of particle i leaves out i and accumulates the
\* contributions of the particles the neighbour query on predicted positions
\* returns, and of no other particle.
C17_PressureFromNeighboursOnly ==
    trace.ran =>
        \A i \in ParticleIdx :
            \/ trace.force[i] = PressureOver(i, NeighboursOfPredicted(i) \ {i})
            \/ trace.force[i] = PressureOver(i, WithinRadiusOfPredicted(i) \ {i})

\* The places of spatial_lookup that hold key k.
PlacesOfKey(k) == {p \in DOMAIN spatial_lookup : spatial_lookup[p].key = k}

\* C18: after every update_spatial_lookup, spatial_lookup holds every
\* particle index once, each with the cell key of that particle's current
\* position; entries with equal key are contiguous; start_indices[k] is the
\* place of the first entry with key k for every key that occurs and
\* usize::MAX for every key that does not, whatever the slot held before.
C18_LookupWellFormed ==
    trace.ran =>
        /\ {spatial_lookup[p].idx : p \in DOMAIN spatial_lookup} = DOMAIN trace.positions
        /\ \A p \in DOMAIN spatial_lookup :
               spatial_lookup[p].key =
                   CellKey(world_pos_to_cell_pos(trace.positions[spatial_lookup[p].idx],
                                                 SMOOTHING_RADIUS),
                           len(trace.positions))
        /\ \A p, q, r \in DOMAIN spatial_lookup :
               (p < q /\ q < r /\ spatial_lookup[p].key = spatial_lookup[r].key)
                   => spatial_lookup[q].key = spatial_lookup[p].key
        /\ \A k \in DOMAIN start_indices :
               IF PlacesOfKey(k) = {} THEN start_indices[k] = USIZE_MAX
               ELSE /\ start_indices[k] \in PlacesOfKey(k)
                    /\ \A p \in PlacesOfKey(k) : start_indices[k] <= p

\* A lookup rebuilt over slots the tick before had written: a key that
\* occurred then and does not now, a key held by two particles, and an
\* entry the sort moved.
C18_Witness ==
    /\ trace.ran
    /\ \E k \in DOMAIN start_indices :
           trace.start_indices[k] # USIZE_MAX /\ PlacesOfKey(k) = {}
    /\ \E k \in DOMAIN start_indices : Cardinality(PlacesOfKey(k)) >= 2
    /\ \E p \in DOMAIN spatial_lookup : spatial_lookup[p].idx # p

\* -v * COLLISION_DAMPING: the velocity turned round and damped.
ReflectAndDamp(v) == FNeg(FMul(v, COLLISION_DAMPING))

\* C19: whenever resolve_collisions finds a particle beyond a wall on an
\* axis, the particle's velocity on that axis points out of the box through
\* that wall, and the velocity it is given on that axis is
\* -v * COLLISION_DAMPING.
C19_OutsideMeansMovingOut ==
    trace.ran => \A i \in ParticleIdx :
        /\ FLt(Moved(i).p.x, left(bounding_box)) =>
               /\ FLt(Moved(i).v.x, 0)
               /\ velocities[i].x = ReflectAndDamp(Moved(i).v.x)
        /\ FGt(Moved(i).p.x, right(bounding_box)) =>
               /\ FGt(Moved(i).v.x, 0)
               /\ velocities[i].x = ReflectAndDamp(Moved(i).v.x)
        /\ FLt(Moved(i).p.y, top(bounding_box)) =>
               /\ FLt(Moved(i).v.y, 0)
               /\ velocities[i].y = ReflectAndDamp(Moved(i).v.y)
        /\ FGt(Moved(i).p.y, bottom(bounding_box)) =>
               /\ FGt(Moved(i).v.y, 0)
               /\ velocities[i].y = ReflectAndDamp(Moved(i).v.y)

\* A particle found beyond the left wall and beyond the top wall at once,
\* and sent back into the box on both axes.
C19_Witness ==
    /\ trace.ran
    /\ \E i \in ParticleIdx :
        /\ FLt(Moved(i).p.x, left(bounding_box))
        /\ FLt(Moved(i).p.y, top(bounding_box))
        /\ FGt(velocities[i].x, 0)
        /\ FGt(velocities[i].y, 0)
        /\ positions[i] = Vec2(left(bounding_box), top(bounding_box))

\* The acceleration particle j contributes to particle i in the last tick:
\* its turn of the loop of calculate_pressure_force, divided by densities[i]
\* as tick divides the force.
PairAcceleration(i, j) ==
    VDiv(PressureTerm(predicted_positions, densities, trace.rng, i, j), densities[i])

\* Particles i and j are predicted at two different points, neither NaN.
DistinctPredicted(i, j) ==
    /\ i # j
    /\ ~IsNaN(predicted_positions[i].x) /\ ~IsNaN(predicted_positions[i].y)
    /\ ~IsNaN(predicted_positions[j].x) /\ ~IsNaN(predicted_positions[j].y)
    /\ predicted_positions[i] # predicted_positions[j]

\* C20 as stated: for every pair of particles i # j with distinct predicted
\* positions, the pressure acceleration j contributes to i in a tick is
\* exactly the negation of the acceleration i contributes to j.
C20_PairAccelerationsCancel ==
    trace.ran =>
        \A i, j \in DOMAIN predicted_positions :
            DistinctPredicted(i, j) =>
                PairAcceleration(i, j) =
                    Vec2(FNeg(PairAcceleration(j, i).x), FNeg(PairAcceleration(j, i).y))

\* The two accelerations of the pair (i, j) add up to at most one unit of
\* the last place on each axis.
NearlyCancel(i, j) ==
    /\ Abs(FAdd(PairAcceleration(i, j).x, PairAcceleration(j, i).x)) <= 1
    /\ Abs(FAdd(PairAcceleration(i, j).y, PairAcceleration(j, i).y)) <= 1

\* C20: for every pair of particles i # j with distinct predicted positions,
\* the pressure acceleration j contributes to i in a tick is the negation of
\* the acceleration i contributes to j up to the rounding of the divisions
\* by the two densities, which the two particles apply in opposite orders;
\* it is exactly the negation when the two densities are equal.
C20_PairAccelerationsNearlyCancel ==
    trace.ran =>
        \A i, j \in DOMAIN predicted_positions :
            (DistinctPredicted(i, j) /\ ~IsNaN(densities[i]) /\ ~IsNaN(densities[j])) =>
                /\ NearlyCancel(i, j)
                /\ densities[i] = densities[j] =>
                       PairAcceleration(i, j) =
                           Vec2(FNeg(PairAcceleration(j, i).x),
                                FNeg(PairAcceleration(j, i).y))

\* A pair within a smoothing radius with different densities, pushing each
\* other apart with accelerations that differ in the last place.
C20_Witness ==
    /\ trace.ran
    /\ \E i, j \in DOMAIN predicted_positions :
        /\ DistinctPredicted(i, j)
        /\ densities[i] # densities[j]
        /\ PairAcceleration(i, j) # ZERO
        /\ NearlyCancel(i, j)
        /\ PairAcceleration(i, j).x # FNeg(PairAcceleration(j, i).x)


---------------------------------------------------------------------------
(* The interaction step of tick on its own: the loop over                  *)
(* interaction_force, from any positions and velocities a tick can start   *)
(* with.                                                                   *)

\* Positions at the pointer, one unit from it, inside the interaction
\* radius (two), exactly on it (0.9, 1.2), just outside it and far from it.
InteractionPoints ==
    { Vec2(0 * Scale, 0 * Scale),
      Vec2((1 * Scale) \div 100, 0 * Scale),
      Vec2((30 * Scale) \div 100, (40 * Scale) \div 100),
      Vec2((120 * Scale) \div 100, (70 * Scale) \div 100),
      Vec2((90 * Scale) \div 100, (120 * Scale) \div 100),
      Vec2((151 * Scale) \div 100, 0 * Scale),
      Vec2((400 * Scale) \div 100, (300 * Scale) \div 100) }

InteractionVelocities ==
    { ZERO, Vec2(1 * Scale, (-50 * Scale) \div 100),
      Vec2((-30 * Scale) \div 100, (30 * Scale) \div 100) }

PointerInteractions == { Suck(NearPointer), Repel(NearPointer) }

InteractionInit ==
    /\ positions \in [ParticleIdx -> InteractionPoints]
    /\ predicted_positions = [i \in ParticleIdx |-> ZERO]
    /\ velocities \in [ParticleIdx -> InteractionVelocities]
    /\ densities = [i \in ParticleIdx |-> 0]
    /\ spatial_lookup = [i \in ParticleIdx |-> [idx |-> 0, key |-> 0]]
    /\ start_indices = [i \in ParticleIdx |-> USIZE_MAX]
    /\ last_update_offset = 0
    /\ rng = 1
    /\ NoHistory
    /\ EngineStart

StoreInteractionRun(s) ==
    /\ positions' = s.positions
    /\ predicted_positions' = s.predicted_positions
    /\ velocities' = s.velocities
    /\ densities' = s.densities
    /\ spatial_lookup' = s.spatial_lookup
    /\ start_indices' = s.start_indices
    /\ rng' = s.rng
    /\ trace' = s.trace
    /\ UNCHANGED << last_update_offset, call, updates, totals, query,
                    engine_vars >>

\* tick, the "apply user input" loop only.
RunInteraction ==
    /\ ~trace.ran
    /\ \E interaction \in PointerInteractions :
           StoreInteractionRun(ApplyUserInput(Fields, interaction))

InteractionNext == RunInteraction

InteractionSpec == InteractionInit /\ [][InteractionNext]_vars

\* Squared distance of particle i, as the step saw it, to the interaction
\* position.
SqrDistToInput(i) ==
    LengthSquared(VSub(trace.interaction.pos, trace.positions[i]))

InsideInteractionRadius(i) ==
    FLt(SqrDistToInput(i), INTERACTION_RADIUS * INTERACTION_RADIUS)

\* The change interaction_force gives a particle that is alone in the
\* arrays with the given position and velocity.
ChangeAlone(position, velocity, interaction) ==
    interaction_force([i \in {0} |-> position], [i \in {0} |-> velocity],
                      interaction.pos, INTERACTION_RADIUS,
                      IF interaction.kind = "Repel"
                      THEN -INTERACTION_STRENGTH ELSE INTERACTION_STRENGTH, 0)

\* C21: the interaction step changes the velocity of no particle whose
\* squared distance to the interaction position is not strictly below
\* INTERACTION_RADIUS^2 (one exactly on the radius included), changes no
\* position, density or other field, and the change of each particle is a
\* function of its own position and velocity.
C21_InteractionTouchesInsideOnly ==
    trace.ran =>
        /\ \A i \in ParticleIdx :
               /\ ~InsideInteractionRadius(i) =>
                      velocities[i] = trace.velocities[i]
               /\ velocities[i] =
                      VAdd(trace.velocities[i],
                           ChangeAlone(trace.positions[i], trace.velocities[i],
                                       trace.interaction))
        /\ positions = trace.positions
        /\ densities = [i \in ParticleIdx |-> 0]
        /\ predicted_positions = [i \in ParticleIdx |-> ZERO]
        /\ spatial_lookup = [i \in ParticleIdx |-> [idx |-> 0, key |-> 0]]
        /\ start_indices = trace.start_indices

\* A step that left a moving particle exactly on the radius alone and
\* changed the velocity of one strictly inside it.
C21_Witness ==
    /\ trace.ran
    /\ \E i, j \in ParticleIdx :
           /\ SqrDistToInput(i) = INTERACTION_RADIUS * INTERACTION_RADIUS
           /\ trace.velocities[i] # ZERO
           /\ velocities[i] = trace.velocities[i]
           /\ InsideInteractionRadius(j)
           /\ velocities[j] # trace.velocities[j]


\* The offset from particle i, as the step saw it, to the interaction
\* position, and its length.
OffsetToInput(i) == VSub(trace.interaction.pos, trace.positions[i])

DistToInput(i) == Sqrt(SqrDistToInput(i))

\* INTERACTION_STRENGTH * (1 - dist / INTERACTION_RADIUS)
FalloffStrength(i) ==
    FMul(INTERACTION_STRENGTH,
         FSub(Scale, FDiv(DistToInput(i), INTERACTION_RADIUS)))

\* The unit vector from particle i to the interaction position for Suck,
\* and away from it for Repel.
PullDirection(i) ==
    IF trace.interaction.kind = "Suck" THEN Normalize(OffsetToInput(i))
    ELSE VScale(Normalize(OffsetToInput(i)), -Scale)

AtRestInsideNotAtInput(i) ==
    /\ trace.velocities[i] = ZERO
    /\ InsideInteractionRadius(i)
    /\ FGt(DistToInput(i), F32_EPSILON)

\* Equal up to one unit of the last place.
WithinSlack(a, b) == Abs(a - b) <= 1

\* C22: a particle at rest strictly inside the interaction radius and not
\* at the interaction position leaves the interaction step with a velocity
\* along the unit vector toward the interaction position for Suck and away
\* from it for Repel, of magnitude
\* INTERACTION_STRENGTH * (1 - dist / INTERACTION_RADIUS), up to rounding.
C22_RestingParticlePulledOrPushed ==
    trace.ran =>
        \A i \in ParticleIdx :
            AtRestInsideNotAtInput(i) =>
                LET expected == VScale(PullDirection(i), FalloffStrength(i))
                IN  /\ WithinSlack(velocities[i].x, expected.x)
                    /\ WithinSlack(velocities[i].y, expected.y)
                    /\ WithinSlack(Length(velocities[i]), FalloffStrength(i))

\* A resting particle inside the radius that Repel pushed away from the
\* pointer at the origin, with a velocity that is not zero.
C22_Witness ==
    /\ trace.ran
    /\ trace.interaction.kind = "Repel"
    /\ \E i \in ParticleIdx :
           /\ AtRestInsideNotAtInput(i)
           /\ velocities[i].x > 0
           /\ velocities[i].y > 0


\* dist <= f32::EPSILON, as interaction_force tests it.
AtInput(i) == FLe(DistToInput(i), F32_EPSILON)

\* C23 as stated: a particle within f32::EPSILON of the interaction
\* position leaves the interaction step with velocity zero, for Repel and
\* for Suck.
C23_AtInputVelocityZero ==
    trace.ran =>
        \A i \in ParticleIdx : AtInput(i) => velocities[i] = ZERO

\* C23: a particle within f32::EPSILON of the interaction position gets the
\* zero vector as direction, so its velocity after the step does not depend
\* on the kind of interaction and is what velocity * (dist / radius) leaves
\* of it, up to rounding: zero when the distance is zero.
C23_AtInputVelocityCancelled ==
    trace.ran =>
        \A i \in ParticleIdx :
            AtInput(i) =>
                LET left_over == FDiv(DistToInput(i), INTERACTION_RADIUS)
                IN  /\ ~VNaN(velocities[i])
                    /\ WithinSlack(velocities[i].x,
                                   FMul(trace.velocities[i].x, left_over))
                    /\ WithinSlack(velocities[i].y,
                                   FMul(trace.velocities[i].y, left_over))
                    /\ DistToInput(i) = 0 => velocities[i] = ZERO
                    /\ velocities[i] =
                           VAdd(trace.velocities[i],
                                ChangeAlone(trace.positions[i], trace.velocities[i],
                                            Suck(trace.interaction.pos)))
                    /\ velocities[i] =
                           VAdd(trace.velocities[i],
                                ChangeAlone(trace.positions[i], trace.velocities[i],
                                            Repel(trace.interaction.pos)))

\* A moving particle at the interaction position that Repel stopped.
C23_Witness ==
    /\ trace.ran
    /\ trace.interaction.kind = "Repel"
    /\ \E i \in ParticleIdx :
           /\ DistToInput(i) = 0
           /\ trace.velocities[i] # ZERO
           /\ velocities[i] = ZERO


\* Whether create_cell_hash leaves the usize range.  `as usize` turns a
\* negative i32 c into 2^64 + c, whose product with a factor of 2 or more
\* is beyond usize::MAX; for c >= 0 the products are below 2^31 * 2^24 and
\* their sum below 2^56.
create_cell_hash_overflows(cell_pos) == cell_pos.x < 0 \/ cell_pos.y < 0

\* The cells get_neighbours_by_pos hashes for a query at world_pos.
ProbedCells(world_pos) ==
    LET center_pos == world_pos_to_cell_pos(world_pos, SMOOTHING_RADIUS)
    IN  { IVec2(center_pos.x + OFFSETS[o].x, center_pos.y + OFFSETS[o].y) :
            o \in 1 .. Len(OFFSETS) }

\* C24 as stated: no cell that the grid rebuild or a neighbour query of a
\* tick passes to create_cell_hash makes the hash leave the usize range.
C24_HashWithoutOverflow ==
    trace.ran =>
        \A i \in ParticleIdx :
            /\ ~create_cell_hash_overflows(
                   world_pos_to_cell_pos(trace.positions[i], SMOOTHING_RADIUS))
            /\ \A cell \in ProbedCells(trace.positions[i]) :
                   ~create_cell_hash_overflows(cell)


---------------------------------------------------------------------------
(* The neighbour query next to the key computation of its outer loop for   *)
(* a table of the shipped length.                                          *)

\* PARTICLE_COUNT as shipped: the length of spatial_lookup.
ShippedLen == 1200

\* One world position in every cell of the 16 x 9 box, and NaN.
CellCentres ==
    { Vec2(cx * SMOOTHING_RADIUS + SMOOTHING_RADIUS \div 2,
           cy * SMOOTHING_RADIUS + SMOOTHING_RADIUS \div 2) :
        cx \in 0 .. (right(bounding_box) \div SMOOTHING_RADIUS),
        cy \in 0 .. (bottom(bounding_box) \div SMOOTHING_RADIUS) }
    \cup { Vec2(NaN, NaN) }

\* get_neighbours_by_pos, line 180 only: the nine cell keys of a query at
\* world_pos when self.spatial_lookup.len() is the shipped length.
ProbeShippedKeys ==
    /\ trace.ran
    /\ ~query.asked
    /\ \E world_pos \in CellCentres :
           query' = [NoQuery EXCEPT !.asked = TRUE, !.world_pos = world_pos,
                                    !.lookup_len = ShippedLen,
                                    !.cell_keys = ProbedKeys(world_pos, ShippedLen)]
    /\ UNCHANGED << state_vars, call, trace, updates, totals, engine_vars >>

ShippedNext == RunUpdateSpatialLookup \/ QueryNeighbours \/ ProbeShippedKeys

ShippedSpec == QueryInit /\ [][ShippedNext]_vars

PairwiseDistinct(keys) ==
    \A a, b \in DOMAIN keys : a # b => keys[a] # keys[b]

\* How many times index i occurs in the list.
Occurrences(list, i) == Cardinality({p \in DOMAIN list : list[p] = i})

\* The key update_spatial_lookup stored for particle i.
StoredKey(i) ==
    LET p == CHOOSE q \in DOMAIN spatial_lookup : spatial_lookup[q].idx = i
    IN  spatial_lookup[p].key

WithinSmoothingRadius(i, world_pos) ==
    FLe(LengthSquared(VSub(positions[i], world_pos)),
        SMOOTHING_RADIUS * SMOOTHING_RADIUS)

\* C25: for a table of the shipped length the nine cell keys of a query are
\* pairwise distinct, whatever the centre cell; and the list a query returns
\* holds each particle within the radius once for every probed offset whose
\* key is the particle's stored key, and no other particle, so that with
\* pairwise distinct keys no index is returned (and counted by
\* calculate_density) twice.
C25_ShippedKeysDistinct ==
    /\ (query.asked /\ query.lookup_len = ShippedLen) =>
           PairwiseDistinct(query.cell_keys)
    /\ (query.asked /\ query.lookup_len = len(spatial_lookup)
                    /\ ~query.panicked) =>
           \A i \in DOMAIN positions :
               Occurrences(query.neighbours, i) =
                   IF WithinSmoothingRadius(i, query.world_pos)
                   THEN Cardinality({o \in DOMAIN query.cell_keys :
                                       query.cell_keys[o] = StoredKey(i)})
                   ELSE 0

\* The keys of a query in the corner cell (0, 0), five of whose nine hashes
\* wrap around, for the shipped length.
C25_Witness ==
    /\ query.asked
    /\ query.lookup_len = ShippedLen
    /\ world_pos_to_cell_pos(query.world_pos, SMOOTHING_RADIUS) = IVec2(0, 0)
    /\ ~IsNaN(query.world_pos.x)
    /\ Cardinality({query.cell_keys[o] : o \in DOMAIN query.cell_keys}) = Len(OFFSETS)


\* C26: while the engine is paused no event, MainEventsCleared included,
\* calls State::update or draws a frame, and positions, velocities,
\* densities and last_update_offset (with every other field of State) stay
\* as they are, from the event that sets paused to the one that clears it.
C26_PausedMeansFrozen ==
    [][ paused =>
            /\ UNCHANGED << state_vars, call, trace, totals >>
            /\ updates' = updates
            /\ draws' = draws
      ]_vars

\* The callback returned from MainEventsCleared with the engine paused,
\* after clock time passed in the pause and with a button pressed, and no
\* update was called and no frame drawn.
C26_Witness ==
    /\ paused
    /\ last_event = [name |-> "MainEventsCleared", was_paused |-> TRUE]
    /\ paused_for > 0
    /\ cursor_pressed
    /\ updates = 0
    /\ draws = 0
    /\ velocities = [i \in ParticleIdx |-> ZERO]


\* C27: every change from paused to unpaused sets the time stamp to now,
\* and the delta_time a frame passes to State::update is no more than the
\* clock time since the engine was last unpaused (or since the frame
\* before): time that passed while paused is not in it, however long the
\* pause lasted.
C27_PausedTimeNotSimulated ==
    [][ /\ (paused /\ ~paused') => elapsed' = 0
        /\ (updates' = updates + 1) =>
               /\ call'.delta_time = elapsed
               /\ call'.delta_time <= since_unpause
               /\ elapsed' = 0
      ]_vars

\* The first frame after a pause in which clock time passed: update got the
\* time since the unpausing event only.
C27_Witness ==
    /\ updates = 1
    /\ paused_for > 0
    /\ pause_cause = "SpacePressed"
    /\ call.delta_time = TICK_DELTA + 1
    /\ Len(call.ticks) = 1


\* C28 as stated: whenever the callback returns with paused true (and the
\* loop was not told to exit), the control flow is Wait.
C28_PausedMeansWait ==
    (paused /\ Running) => control_flow = "Wait"


\* C29: after a Focused(f) event paused is !f, whatever it was and whatever
\* set it; a press of Space flips paused; a release of Space and every
\* other event leave paused as it was.
C29_PausedTransitionRule ==
    [][ ~PassTime =>
            /\ last_event'.name = "FocusGained" => ~paused'
            /\ last_event'.name = "FocusLost" => paused'
            /\ last_event'.name = "SpacePressed" => paused' = ~paused
            /\ last_event'.name \notin {"FocusGained", "FocusLost", "SpacePressed"}
                   => paused' = paused
      ]_vars

\* The window regained the focus while the engine was in a pause that a
\* press of Space began, and the engine runs again.
C29_Witness ==
    /\ last_event = [name |-> "FocusGained", was_paused |-> TRUE]
    /\ pause_cause = "SpacePressed"
    /\ ~paused


\* C30 as stated: a frame of the running engine at which a pointer button
\* is down calls State::update with an interaction, Suck if the latest
\* press was of the right button and Repel otherwise.
C30_HeldButtonGivesInteraction ==
    [][ (updates' = updates + 1 /\ held # {}) =>
            call'.interaction.kind =
                IF pressed_last = "Right" THEN "Suck" ELSE "Repel"
      ]_vars
===========================================================================
